---------------------------- MODULE Spec2Model ----------------------------
(***************************************************************************)
(* Model of the editor panel of the companion web client                   *)
(* (web/src/components/EditorPanel.tsx): the per-session editor controller *)
(* (open file, buffer, debounced save, edit/diff mode), and the pure       *)
(* helpers hasChangedDescendant, DiffView and relativeChangedFiles.        *)
(*                                                                         *)
(* Every event handler, promise callback and timer callback is one action; *)
(* the React effects a state change triggers run inside the action that    *)
(* causes the change, in the order the component declares them.            *)
(***************************************************************************)
EXTENDS Integers, Sequences, FiniteSets, Bags, TLC

VARIABLES
    \* ---- slices of the global store the component subscribes to
    cwd,            \* session.cwd || sdkSession.cwd, or NoCwd
    openFilePath,   \* editorOpenFile.get(sessionId) ?? null
    changedFiles,   \* changedFiles.get(sessionId) ?? new Set()
    \* ---- component state (useState / useRef)
    mounted,
    tree, treeLoading,
    fileContent, savedContent, fileLoading,
    saveTimerRef,   \* handle of the timer armed last, 0 for null
    saveStatus,
    diffMode, diffContent, diffLoading,
    \* ---- the environment: timers armed and requests in flight
    timers,         \* pending 800 ms timers: set of [id, path, value]
    statusTimers,   \* number of pending 2000 ms "saved" display timers
    treeReqs,       \* number of getFileTree calls in flight
    readReqs,       \* bag of paths: readFile calls in flight
    writeReqs,      \* bag of [path, value]: writeFile calls in flight
    diffReqs,       \* bag of paths: getFileDiff calls in flight
    \* ---- input and output of the pure helpers (used by the helper
    \* specifications); out also records what the unmount cleanup cancelled
    arg, out

ctl == <<cwd, openFilePath, changedFiles, mounted, tree, treeLoading,
         fileContent, savedContent, fileLoading, saveTimerRef, saveStatus,
         diffMode, diffContent, diffLoading, timers, statusTimers,
         treeReqs, readReqs, writeReqs, diffReqs>>

vars == <<ctl, arg, out>>

-----------------------------------------------------------------------------
(* Bounds of the model *)

\* callbacks outstanding at once: service requests in flight (tree, read,
\* write, diff) and pending "saved" display timers
MaxPending == 2

-----------------------------------------------------------------------------
(* Values *)

NoCwd == "NoCwd"
Repo == "/repo"
NoPath == "null"
Paths == {"/repo/a.ts", "/repo/b.ts"}

\* buffer values the service returns and the user types
Contents == {"v1", "v2"}
ErrorSentinel == "// Error loading file"

\* saveStatus: "saved" | "saving" | "dirty" | null
StatusNone == "none"

\* what getFileTree returns: the empty tree or some tree
Trees == {"emptyTree", "someTree"}

\* what getFileDiff returns for a path: an empty diff or the diff of that file
DiffOf(p) == "diff of " \o p
NoDiff == ""
DiffResults(p) == {NoDiff, DiffOf(p)}

One(e) == SetToBag({e})

\* the number of service requests in flight
InFlight ==
    treeReqs + BagCardinality(readReqs) + BagCardinality(writeReqs)
             + BagCardinality(diffReqs)

\* n more outstanding callbacks fit the bound of the model
Room(n) == InFlight + statusTimers + n <= MaxPending

-----------------------------------------------------------------------------
(* Derived values of a render *)

changedFilesHas(p) == p \in changedFiles

isDirty == fileContent # savedContent /\ openFilePath # NoPath

\* the Edit/Diff control offered for every open file
ToggleShownForAnyFile ==
    /\ cwd # NoCwd
    /\ openFilePath # NoPath

\* the tab bar holds the Edit/Diff control
ToggleShown ==
    /\ cwd # NoCwd
    /\ openFilePath # NoPath
    /\ changedFilesHas(openFilePath)

\* which of the alternatives the editor area shows
View ==
    IF cwd = NoCwd THEN "waiting"
    ELSE IF openFilePath = NoPath THEN "placeholder"
    ELSE IF fileLoading \/ diffLoading THEN "spinner"
    ELSE IF diffMode /\ changedFilesHas(openFilePath) THEN "diff"
    ELSE "editor"

-----------------------------------------------------------------------------
(* Initial state: the panel is mounted for a session whose working          *)
(* directory is not resolved yet and that has no file open; every effect    *)
(* of the first render returns early.                                       *)

InitCtl ==
    /\ cwd = NoCwd
    /\ openFilePath = NoPath
    /\ changedFiles = {}
    /\ mounted = TRUE
    /\ tree = "emptyTree"
    /\ treeLoading = FALSE
    /\ fileContent = ""
    /\ savedContent = ""
    /\ fileLoading = FALSE
    /\ saveTimerRef = 0
    /\ saveStatus = StatusNone
    /\ diffMode = FALSE
    /\ diffContent = NoDiff
    /\ diffLoading = FALSE
    /\ timers = {}
    /\ statusTimers = 0
    /\ treeReqs = 0
    /\ readReqs = EmptyBag
    /\ writeReqs = EmptyBag
    /\ diffReqs = EmptyBag

\* no helper input, no helper output
NoArg == [fn |-> "none"]
NoOut == [kind |-> "none"]

Init ==
    /\ InitCtl
    /\ arg = NoArg
    /\ out = NoOut

-----------------------------------------------------------------------------
(* Effects *)

\* the diff effect without its loading flag
FetchDiffEffectNoSpinner(mode, p, changed) ==
    IF mode /\ p # NoPath /\ p \in changed
    THEN /\ diffReqs' = diffReqs (+) One(p)
         /\ UNCHANGED diffLoading
    ELSE UNCHANGED <<diffLoading, diffReqs>>

\* "Fetch diff when diff mode is activated on a changed file": the effect
\* body, run with the diffMode, path and changed set of the render it
\* belongs to.
FetchDiffEffect(mode, p, changed) ==
    IF mode /\ p # NoPath /\ p \in changed
    THEN /\ diffLoading' = TRUE
         /\ diffReqs' = diffReqs (+) One(p)
    ELSE UNCHANGED <<diffLoading, diffReqs>>

FetchDiffRuns(mode, p, changed) == mode /\ p # NoPath /\ p \in changed

-----------------------------------------------------------------------------
(* Actions *)

\* The session's working directory becomes known: the tree effect runs.
CwdKnown ==
    /\ mounted
    /\ cwd = NoCwd
    /\ Room(1)
    /\ cwd' = Repo
    /\ treeLoading' = TRUE
    /\ treeReqs' = treeReqs + 1
    /\ UNCHANGED <<openFilePath, changedFiles, mounted, tree,
                   fileContent, savedContent, fileLoading, saveTimerRef,
                   saveStatus, diffMode, diffContent, diffLoading, timers,
                   statusTimers, readReqs, writeReqs, diffReqs, arg, out>>

\* getFileTree resolves or rejects.
TreeResolve(ok, t) ==
    /\ mounted
    /\ treeReqs > 0
    /\ treeReqs' = treeReqs - 1
    /\ tree' = IF ok THEN t ELSE tree
    /\ treeLoading' = FALSE
    /\ UNCHANGED <<cwd, openFilePath, changedFiles, mounted,
                   fileContent, savedContent, fileLoading, saveTimerRef,
                   saveStatus, diffMode, diffContent, diffLoading, timers,
                   statusTimers, readReqs, writeReqs, diffReqs, arg, out>>

\* The store's changed-file set of the session is replaced; the diff effect
\* depends on it and runs again.
SetChangedFiles(S) ==
    /\ mounted
    /\ S # changedFiles
    /\ FetchDiffRuns(diffMode, openFilePath, S) => Room(1)
    /\ changedFiles' = S
    /\ FetchDiffEffect(diffMode, openFilePath, S)
    /\ UNCHANGED <<cwd, openFilePath, mounted, tree, treeLoading,
                   fileContent, savedContent, fileLoading, saveTimerRef,
                   saveStatus, diffMode, diffContent, timers,
                   statusTimers, treeReqs, readReqs, writeReqs, arg, out>>

\* a file selection whose render does not reset diff mode
SelectFileKeepMode(p) ==
    /\ mounted
    /\ cwd # NoCwd
    /\ p # openFilePath
    /\ Room(IF FetchDiffRuns(diffMode, p, changedFiles) THEN 2 ELSE 1)
    /\ openFilePath' = p
    /\ fileLoading' = TRUE
    /\ saveStatus' = StatusNone
    /\ readReqs' = readReqs (+) One(p)
    /\ FetchDiffEffect(diffMode, p, changedFiles)
    /\ UNCHANGED <<cwd, changedFiles, mounted, tree, treeLoading,
                   fileContent, savedContent, saveTimerRef, diffMode,
                   diffContent, timers, statusTimers, treeReqs,
                   writeReqs, arg, out>>

\* handleFileSelect(p), and the effects of the render that sees the new
\* openFilePath: load file content, reset diff mode, fetch diff (the last
\* one still sees the diffMode of that render).
SelectFile(p) ==
    /\ mounted
    /\ cwd # NoCwd
    /\ p # openFilePath
    /\ Room(IF FetchDiffRuns(diffMode, p, changedFiles) THEN 2 ELSE 1)
    /\ openFilePath' = p
    /\ fileLoading' = TRUE
    /\ saveStatus' = StatusNone
    /\ readReqs' = readReqs (+) One(p)
    /\ diffMode' = FALSE
    /\ FetchDiffEffect(diffMode, p, changedFiles)
    /\ UNCHANGED <<cwd, changedFiles, mounted, tree, treeLoading,
                   fileContent, savedContent, saveTimerRef,
                   diffContent, timers, statusTimers, treeReqs,
                   writeReqs, arg, out>>

\* a read whose failure leaves the loading flag set
ReadResolveKeepsLoading(p, ok, c) ==
    /\ mounted
    /\ BagIn(p, readReqs)
    /\ readReqs' = readReqs (-) One(p)
    /\ fileContent' = IF ok THEN c ELSE ErrorSentinel
    /\ savedContent' = IF ok THEN c ELSE ""
    /\ fileLoading' = IF ok THEN FALSE ELSE fileLoading
    /\ UNCHANGED <<cwd, openFilePath, changedFiles, mounted, tree,
                   treeLoading, saveTimerRef, saveStatus, diffMode,
                   diffContent, diffLoading, timers, statusTimers,
                   treeReqs, writeReqs, diffReqs, arg, out>>

\* readFile(p) resolves with content c, or rejects.
ReadResolve(p, ok, c) ==
    /\ mounted
    /\ BagIn(p, readReqs)
    /\ readReqs' = readReqs (-) One(p)
    /\ fileContent' = IF ok THEN c ELSE ErrorSentinel
    /\ savedContent' = IF ok THEN c ELSE ""
    /\ fileLoading' = FALSE
    /\ UNCHANGED <<cwd, openFilePath, changedFiles, mounted, tree,
                   treeLoading, saveTimerRef, saveStatus, diffMode,
                   diffContent, diffLoading, timers, statusTimers,
                   treeReqs, writeReqs, diffReqs, arg, out>>

\* a handle no pending timer has
FreshTimerId(pending) ==
    CHOOSE i \in 1..(Cardinality(pending) + 1) :
        /\ \A t \in pending : t.id # i
        /\ \A j \in 1..(i - 1) : \E t \in pending : t.id = j

\* clearTimeout(h)
ClearTimeout(pending, h) == {t \in pending : t.id # h}

\* an edit that arms its timer without clearing the pending one
HandleChangeNoCancel(value) ==
    /\ mounted
    /\ View = "editor"
    /\ value # fileContent
    /\ fileContent' = value
    /\ saveStatus' = "dirty"
    /\ LET h == FreshTimerId(timers)
       IN  /\ timers' = timers \cup
                 {[id |-> h, path |-> openFilePath, value |-> value]}
           /\ saveTimerRef' = h
    /\ UNCHANGED <<cwd, openFilePath, changedFiles, mounted, tree,
                   treeLoading, savedContent, fileLoading, diffMode,
                   diffContent, diffLoading, statusTimers, treeReqs,
                   readReqs, writeReqs, diffReqs, arg, out>>

\* handleChange(value): the editor reports a user edit.
HandleChange(value) ==
    /\ mounted
    /\ View = "editor"
    /\ value # fileContent
    /\ fileContent' = value
    /\ saveStatus' = "dirty"
    /\ LET cleared == IF saveTimerRef # 0
                      THEN ClearTimeout(timers, saveTimerRef)
                      ELSE timers
       IN  IF openFilePath = NoPath
           THEN /\ timers' = cleared
                /\ UNCHANGED saveTimerRef
           ELSE LET h == FreshTimerId(cleared)
                IN  /\ timers' = cleared \cup
                          {[id |-> h, path |-> openFilePath, value |-> value]}
                    /\ saveTimerRef' = h
    /\ UNCHANGED <<cwd, openFilePath, changedFiles, mounted, tree,
                   treeLoading, savedContent, fileLoading, diffMode,
                   diffContent, diffLoading, statusTimers, treeReqs,
                   readReqs, writeReqs, diffReqs, arg, out>>

\* a timer callback that waits while a write of its file is in flight
TimerFireOneInFlight(t) ==
    /\ t \in timers
    /\ Room(1)
    /\ \A w \in BagToSet(writeReqs) : w.path # t.path
    /\ timers' = timers \ {t}
    /\ saveStatus' = IF mounted THEN "saving" ELSE saveStatus
    /\ writeReqs' = writeReqs (+) One([path |-> t.path, value |-> t.value])
    /\ UNCHANGED <<cwd, openFilePath, changedFiles, mounted, tree,
                   treeLoading, fileContent, savedContent, fileLoading,
                   saveTimerRef, diffMode, diffContent, diffLoading,
                   statusTimers, treeReqs, readReqs, diffReqs, arg, out>>

\* a timer callback that reads the open path and the buffer when it fires
TimerFireCurrent(t) ==
    /\ t \in timers
    /\ Room(1)
    /\ timers' = timers \ {t}
    /\ saveStatus' = IF mounted THEN "saving" ELSE saveStatus
    /\ writeReqs' = writeReqs (+) One([path |-> openFilePath, value |-> fileContent])
    /\ UNCHANGED <<cwd, openFilePath, changedFiles, mounted, tree,
                   treeLoading, fileContent, savedContent, fileLoading,
                   saveTimerRef, diffMode, diffContent, diffLoading,
                   statusTimers, treeReqs, readReqs, diffReqs, arg, out>>

\* A debounce timer fires: the callback armed by handleChange runs.
TimerFire(t) ==
    /\ t \in timers
    /\ Room(1)
    /\ timers' = timers \ {t}
    /\ saveStatus' = IF mounted THEN "saving" ELSE saveStatus  \* no state after unmount
    /\ writeReqs' = writeReqs (+) One([path |-> t.path, value |-> t.value])
    /\ UNCHANGED <<cwd, openFilePath, changedFiles, mounted, tree,
                   treeLoading, fileContent, savedContent, fileLoading,
                   saveTimerRef, diffMode, diffContent, diffLoading,
                   statusTimers, treeReqs, readReqs, diffReqs, arg, out>>

\* a write whose failure rolls the buffer back and issues the write again
WriteResolveRetry(w, ok) ==
    /\ mounted
    /\ BagIn(w, writeReqs)
    /\ IF ok
       THEN /\ writeReqs' = writeReqs (-) One(w)
            /\ savedContent' = w.value
            /\ saveStatus' = "saved"
            /\ statusTimers' = statusTimers + 1
            /\ UNCHANGED fileContent
       ELSE /\ fileContent' = savedContent
            /\ saveStatus' = "saving"
            /\ UNCHANGED <<writeReqs, savedContent, statusTimers>>
    /\ UNCHANGED <<cwd, openFilePath, changedFiles, mounted, tree,
                   treeLoading, fileLoading, saveTimerRef,
                   diffMode, diffContent, diffLoading, timers, treeReqs,
                   readReqs, diffReqs, arg, out>>

\* writeFile(w.path, w.value) resolves, or rejects.
WriteResolve(w, ok) ==
    /\ mounted
    /\ BagIn(w, writeReqs)
    /\ writeReqs' = writeReqs (-) One(w)
    /\ IF ok
       THEN /\ savedContent' = w.value
            /\ saveStatus' = "saved"
            /\ statusTimers' = statusTimers + 1
       ELSE /\ saveStatus' = "dirty"
            /\ UNCHANGED <<savedContent, statusTimers>>
    /\ UNCHANGED <<cwd, openFilePath, changedFiles, mounted, tree,
                   treeLoading, fileContent, fileLoading, saveTimerRef,
                   diffMode, diffContent, diffLoading, timers, treeReqs,
                   readReqs, diffReqs, arg, out>>

\* The 2000 ms timer armed after a successful write fires.
StatusTimerFire ==
    /\ mounted
    /\ statusTimers > 0
    /\ statusTimers' = statusTimers - 1
    /\ saveStatus' = StatusNone
    /\ UNCHANGED <<cwd, openFilePath, changedFiles, mounted, tree,
                   treeLoading, fileContent, savedContent, fileLoading,
                   saveTimerRef, diffMode, diffContent, diffLoading,
                   timers, treeReqs, readReqs, writeReqs, diffReqs,
                   arg, out>>

\* a mode switch that reloads the file when it returns to the editor
SetDiffModeReload(b) ==
    /\ mounted
    /\ ToggleShown
    /\ b # diffMode
    /\ Room(1)
    /\ diffMode' = b
    /\ FetchDiffEffect(b, openFilePath, changedFiles)
    /\ IF b
       THEN UNCHANGED <<fileLoading, saveStatus, readReqs>>
       ELSE /\ fileLoading' = TRUE
            /\ saveStatus' = StatusNone
            /\ readReqs' = readReqs (+) One(openFilePath)
    /\ UNCHANGED <<cwd, openFilePath, changedFiles, mounted, tree,
                   treeLoading, fileContent, savedContent,
                   saveTimerRef, diffContent, timers,
                   statusTimers, treeReqs, writeReqs, arg, out>>

\* A click on "Diff" (b = TRUE) or "Edit" (b = FALSE) that changes diffMode;
\* the diff effect runs with the new mode.
SetDiffMode(b) ==
    /\ mounted
    /\ ToggleShown
    /\ b # diffMode
    /\ FetchDiffRuns(b, openFilePath, changedFiles) => Room(1)
    /\ diffMode' = b
    /\ FetchDiffEffect(b, openFilePath, changedFiles)
    /\ UNCHANGED <<cwd, openFilePath, changedFiles, mounted, tree,
                   treeLoading, fileContent, savedContent, fileLoading,
                   saveTimerRef, saveStatus, diffContent, timers,
                   statusTimers, treeReqs, readReqs, writeReqs, arg, out>>

\* getFileDiff(p) resolves with diff d, or rejects.
DiffResolve(p, ok, d) ==
    /\ mounted
    /\ BagIn(p, diffReqs)
    /\ diffReqs' = diffReqs (-) One(p)
    /\ diffContent' = IF ok THEN d ELSE NoDiff
    /\ diffLoading' = FALSE
    /\ UNCHANGED <<cwd, openFilePath, changedFiles, mounted, tree,
                   treeLoading, fileContent, savedContent, fileLoading,
                   saveTimerRef, saveStatus, diffMode, timers,
                   statusTimers, treeReqs, readReqs, writeReqs, arg, out>>

\* what the cleanup's clearTimeout call did: the timers it cancelled
Cancelled(before, after) == [kind |-> "clearTimeout", cancelled |-> before \ after]

\* an unmount whose cleanup does not clear the pending timer
UnmountNoCleanup ==
    /\ mounted
    /\ mounted' = FALSE
    /\ timers' = timers
    /\ out' = Cancelled(timers, timers')
    /\ tree' = "emptyTree"
    /\ treeLoading' = FALSE
    /\ fileContent' = ""
    /\ savedContent' = ""
    /\ fileLoading' = FALSE
    /\ saveTimerRef' = 0
    /\ saveStatus' = StatusNone
    /\ diffMode' = FALSE
    /\ diffContent' = NoDiff
    /\ diffLoading' = FALSE
    /\ statusTimers' = 0
    /\ treeReqs' = 0
    /\ readReqs' = EmptyBag
    /\ writeReqs' = EmptyBag
    /\ diffReqs' = EmptyBag
    /\ UNCHANGED <<cwd, openFilePath, changedFiles, arg>>

\* The panel is unmounted: the cleanup of the timer effect runs. The
\* component's state is discarded with it, and the callbacks still
\* outstanding can no longer reach it: the model stops following them.
Unmount ==
    /\ mounted
    /\ mounted' = FALSE
    /\ timers' = IF saveTimerRef # 0
                 THEN ClearTimeout(timers, saveTimerRef)
                 ELSE timers
    /\ out' = Cancelled(timers, timers')
    /\ tree' = "emptyTree"
    /\ treeLoading' = FALSE
    /\ fileContent' = ""
    /\ savedContent' = ""
    /\ fileLoading' = FALSE
    /\ saveTimerRef' = 0
    /\ saveStatus' = StatusNone
    /\ diffMode' = FALSE
    /\ diffContent' = NoDiff
    /\ diffLoading' = FALSE
    /\ statusTimers' = 0
    /\ treeReqs' = 0
    /\ readReqs' = EmptyBag
    /\ writeReqs' = EmptyBag
    /\ diffReqs' = EmptyBag
    /\ UNCHANGED <<cwd, openFilePath, changedFiles, arg>>

Next ==
    \/ CwdKnown
    \/ \E ok \in BOOLEAN, t \in Trees : TreeResolve(ok, t)
    \/ \E S \in SUBSET Paths : SetChangedFiles(S)
    \/ \E p \in Paths : SelectFile(p)
    \/ \E p \in Paths, ok \in BOOLEAN, c \in Contents : ReadResolve(p, ok, c)
    \/ \E v \in Contents : HandleChange(v)
    \/ \E t \in timers : TimerFire(t)
    \/ \E w \in BagToSet(writeReqs), ok \in BOOLEAN : WriteResolve(w, ok)
    \/ StatusTimerFire
    \/ \E b \in BOOLEAN : SetDiffMode(b)
    \/ \E p \in Paths, ok \in BOOLEAN : \E d \in DiffResults(p) : DiffResolve(p, ok, d)
    \/ Unmount

Spec == Init /\ [][Next]_vars

-----------------------------------------------------------------------------
(* One file, opened once and loaded, edited in bursts: an edit arrives only *)
(* while no write is in flight and no "saved" display is pending, and every *)
(* write succeeds.                                                          *)

NextBurst ==
    \/ CwdKnown
    \/ \E ok \in BOOLEAN, t \in Trees : TreeResolve(ok, t)
    \/ \E S \in SUBSET Paths : SetChangedFiles(S)
    \/ \E p \in Paths : openFilePath = NoPath /\ SelectFile(p)
    \/ \E p \in Paths, c \in Contents : ReadResolve(p, TRUE, c)
    \/ \E v \in Contents :
           writeReqs = EmptyBag /\ statusTimers = 0 /\ HandleChange(v)
    \/ \E t \in timers : TimerFire(t)
    \/ \E w \in BagToSet(writeReqs) : WriteResolve(w, TRUE)
    \/ StatusTimerFire

SpecBurst == Init /\ [][NextBurst]_vars

-----------------------------------------------------------------------------
(* One file, opened once and loaded; the user edits at any moment, also     *)
(* while writes are in flight, and every write succeeds in whatever order   *)
(* the service answers.                                                     *)

NextOverlap ==
    \/ CwdKnown
    \/ \E ok \in BOOLEAN, t \in Trees : TreeResolve(ok, t)
    \/ \E S \in SUBSET Paths : SetChangedFiles(S)
    \/ \E p \in Paths : openFilePath = NoPath /\ SelectFile(p)
    \/ \E p \in Paths, c \in Contents : ReadResolve(p, TRUE, c)
    \/ \E v \in Contents : HandleChange(v)
    \/ \E t \in timers : TimerFire(t)
    \/ \E w \in BagToSet(writeReqs) : WriteResolve(w, TRUE)
    \/ StatusTimerFire

SpecOverlap == Init /\ [][NextOverlap]_vars

-----------------------------------------------------------------------------
(* DiffView: a diff text is a sequence of characters *)

\* diff texts are built from at most MaxChunks of the Chunks below
MaxChunks == 4

NL == "\n"
Nbsp == "nbsp"      \* " "

Chunks ==
    { <<"+">>, <<"-">>, <<"@">>, <<NL>>, <<"a">>, <<Nbsp>>,
      <<"d", "i", "f", "f">>, <<"d", "i", "f">>,
      <<"i", "n", "d", "e", "x">>, <<"i", "n", "d", "e">> }

RECURSIVE ChunkTexts(_)
ChunkTexts(n) ==
    IF n = 0 THEN {<< >>}
    ELSE LET prev == ChunkTexts(n - 1)
         IN  prev \cup {t \o c : t \in prev, c \in Chunks}

DiffTexts == ChunkTexts(MaxChunks)

\* line.startsWith(prefix)
StartsWith(line, prefix) ==
    /\ Len(line) >= Len(prefix)
    /\ SubSeq(line, 1, Len(prefix)) = prefix

\* a split that drops the empty pieces
RECURSIVE SplitSkipEmpty(_)
SplitSkipEmpty(s) ==
    IF \A i \in 1..Len(s) : s[i] # NL
    THEN IF s = << >> THEN << >> ELSE <<s>>
    ELSE LET i == CHOOSE k \in 1..Len(s) :
                      s[k] = NL /\ \A j \in 1..(k - 1) : s[j] # NL
             first == SubSeq(s, 1, i - 1)
         IN  (IF first = << >> THEN << >> ELSE <<first>>)
                 \o SplitSkipEmpty(SubSeq(s, i + 1, Len(s)))

\* diff.split("\n")
RECURSIVE Split(_)
Split(s) ==
    IF \A i \in 1..Len(s) : s[i] # NL
    THEN <<s>>
    ELSE LET i == CHOOSE k \in 1..Len(s) :
                      s[k] = NL /\ \A j \in 1..(k - 1) : s[j] # NL
         IN  <<SubSeq(s, 1, i - 1)>> \o Split(SubSeq(s, i + 1, Len(s)))

\* LineClass without the exclusion of the "+++" and "---" file headers
LineClassNoHeaderRule(line) ==
    IF StartsWith(line, <<"+">>)
        THEN "bg-cc-success/10 text-cc-success"
    ELSE IF StartsWith(line, <<"-">>)
        THEN "bg-cc-error/10 text-cc-error"
    ELSE IF StartsWith(line, <<"@", "@">>)
        THEN "text-cc-primary"
    ELSE IF \/ StartsWith(line, <<"d", "i", "f", "f">>)
            \/ StartsWith(line, <<"i", "n", "d", "e", "x">>)
        THEN "text-cc-muted"
    ELSE "text-cc-fg/60"

\* the className chosen for a line
LineClass(line) ==
    IF StartsWith(line, <<"+">>) /\ ~StartsWith(line, <<"+", "+", "+">>)
        THEN "bg-cc-success/10 text-cc-success"
    ELSE IF StartsWith(line, <<"-">>) /\ ~StartsWith(line, <<"-", "-", "-">>)
        THEN "bg-cc-error/10 text-cc-error"
    ELSE IF StartsWith(line, <<"@", "@">>)
        THEN "text-cc-primary"
    ELSE IF \/ StartsWith(line, <<"d", "i", "f", "f">>)
            \/ StartsWith(line, <<"i", "n", "d", "e", "x">>)
        THEN "text-cc-muted"
    ELSE "text-cc-fg/60"

\* the <div> rendered for line i: {line || " "}
LineEntry(line, i) ==
    [key |-> i - 1,
     cls |-> LineClass(line),
     text |-> IF line = << >> THEN <<Nbsp>> ELSE line]

\* DiffView({ diff })
DiffView(diff) ==
    IF diff = << >>
    THEN [kind |-> "noChanges"]
    ELSE LET lines == Split(diff)
         IN  [kind |-> "lines",
              entries |-> [i \in 1..Len(lines) |-> LineEntry(lines[i], i)]]

InitDiffView ==
    /\ InitCtl
    /\ arg \in {[fn |-> "DiffView", diff |-> d] : d \in DiffTexts}
    /\ out = NoOut

RenderDiffView ==
    /\ arg.fn = "DiffView"
    /\ out = NoOut
    /\ out' = DiffView(arg.diff)
    /\ UNCHANGED <<ctl, arg>>

SpecDiffView == InitDiffView /\ [][RenderDiffView]_vars


-----------------------------------------------------------------------------
(* The file tree: hasChangedDescendant and the marker of FileTreeNode *)

\* trees have at most MaxNodes nodes
MaxNodes == 4

\* A tree shape: nodes 1..n, node 1 the root, parent[i] < i the parent of
\* node i > 1; kind[i] tells a file from a directory with a children array
\* and from a directory without one. The path of node i is i; path 0 is a
\* path outside the tree.
TreeShapes ==
    UNION { { [n |-> n, parent |-> par, kind |-> knd] :
                par \in { f \in [2..n -> 1..n] : \A i \in 2..n : f[i] < i },
                knd \in [1..n -> {"file", "dir", "dirNoChildren"}] }
            : n \in 1..MaxNodes }

ChildrenOf(shape, i) == {j \in 2..shape.n : shape.parent[j] = i}

WellFormed(shape) ==
    \A i \in 1..shape.n : ChildrenOf(shape, i) # {} => shape.kind[i] = "dir"

\* the members of a set of numbers in increasing order
RECURSIVE Ascending(_)
Ascending(S) ==
    IF S = {} THEN << >>
    ELSE LET m == CHOOSE x \in S : \A y \in S : x <= y
         IN  <<m>> \o Ascending(S \ {m})

\* the TreeNode of node i of a shape
RECURSIVE TreeNode(_, _)
TreeNode(shape, i) ==
    LET kids == Ascending(ChildrenOf(shape, i))
    IN  CASE shape.kind[i] = "file" ->
                 [path |-> i, type |-> "file"]
          [] shape.kind[i] = "dirNoChildren" ->
                 [path |-> i, type |-> "directory"]
          [] shape.kind[i] = "dir" ->
                 [path |-> i, type |-> "directory",
                  children |-> [k \in 1..Len(kids) |-> TreeNode(shape, kids[k])]]

\* hasChangedDescendant that looks at the node and its children only
hasChangedChild(node, changed) ==
    IF node.path \in changed THEN TRUE
    ELSE IF "children" \in DOMAIN node
    THEN \E k \in 1..Len(node.children) : node.children[k].path \in changed
    ELSE FALSE

\* hasChangedDescendant(node, changedFiles)
RECURSIVE hasChangedDescendant(_, _)
hasChangedDescendant(node, changed) ==
    IF node.path \in changed THEN TRUE
    ELSE IF "children" \in DOMAIN node
    THEN \E k \in 1..Len(node.children) :
             hasChangedDescendant(node.children[k], changed)
    ELSE FALSE

\* FileTreeNode: whether the node carries the "changed" marker
ChangedMarker(node, changed) ==
    LET isDir == node.type = "directory"
        isChanged == ~isDir /\ node.path \in changed
        hasChanged == isDir /\ hasChangedDescendant(node, changed)
    IN  isChanged \/ hasChanged

InitTree ==
    /\ InitCtl
    /\ arg \in { [fn |-> "FileTreeNode", shape |-> sh, changed |-> c] :
                   sh \in {x \in TreeShapes : WellFormed(x)},
                   c \in SUBSET (0..MaxNodes) }
    /\ \A x \in arg.changed : x <= arg.shape.n
    /\ out = NoOut

RenderTree ==
    /\ arg.fn = "FileTreeNode"
    /\ out = NoOut
    /\ out' = [kind |-> "markers",
               marker |-> [i \in 1..arg.shape.n |->
                              ChangedMarker(TreeNode(arg.shape, i), arg.changed)]]
    /\ UNCHANGED <<ctl, arg>>

SpecTree == InitTree /\ [][RenderTree]_vars

-----------------------------------------------------------------------------
(* relativeChangedFiles: paths are sequences of characters *)

\* the changed set holds at most MaxChanged paths
MaxChanged == 3

SampleCwds == { <<"/", "r">>, <<"/", "x">> }

SamplePaths ==
    { <<"/", "r", "/", "b">>,           \* below /r
      <<"/", "r", "/", "a">>,           \* below /r
      <<"/", "r", "/", "a", "/", "b">>, \* below /r, nested
      <<"/", "r", "b">>,                \* starts with /r, not with /r/
      <<"/", "x">>,                     \* outside /r
      <<"/", "r", "/", "/", "x">> }     \* below /r, relative form "/x"

\* the orders in which a Set of at most MaxChanged paths can be iterated
RECURSIVE Arrangements(_)
Arrangements(n) ==
    IF n = 0 THEN {<< >>}
    ELSE LET prev == Arrangements(n - 1)
         IN  prev \cup { Append(q, x) : q \in {r \in prev : Len(r) = n - 1},
                                        x \in SamplePaths }

NoRepeat(q) == \A i, j \in 1..Len(q) : i # j => q[i] # q[j]

\* the collation rank of the characters used
CharRank(c) ==
    CASE c = "/" -> 1
      [] c = "a" -> 2
      [] c = "b" -> 3
      [] c = "r" -> 4
      [] c = "x" -> 5

\* a.localeCompare(b): negative, zero or positive
RECURSIVE LocaleCompare(_, _)
LocaleCompare(a, b) ==
    IF a = << >> /\ b = << >> THEN 0
    ELSE IF a = << >> THEN -1
    ELSE IF b = << >> THEN 1
    ELSE IF CharRank(Head(a)) < CharRank(Head(b)) THEN -1
    ELSE IF CharRank(Head(a)) > CharRank(Head(b)) THEN 1
    ELSE LocaleCompare(Tail(a), Tail(b))

\* the label computed with fp.startsWith(cwd) instead of cwd + "/"
RelativeLabelNoSlash(fp, dir) ==
    IF StartsWith(fp, dir)
    THEN SubSeq(fp, Len(dir) + 2, Len(fp))
    ELSE fp

\* fp.startsWith(cwd + "/") ? fp.slice(cwd.length + 1) : fp
RelativeLabel(fp, dir) ==
    IF StartsWith(fp, dir \o <<"/">>)
    THEN SubSeq(fp, Len(dir) + 2, Len(fp))
    ELSE fp

\* e put into the sorted sequence q, behind the entries that do not compare
\* greater (the sort is stable)
InsertSorted(q, e) ==
    LET after == {k \in 1..Len(q) : LocaleCompare(e.rel, q[k].rel) < 0}
        pos == IF after = {} THEN Len(q) + 1
               ELSE CHOOSE k \in after : \A m \in after : k <= m
    IN  SubSeq(q, 1, pos - 1) \o <<e>> \o SubSeq(q, pos, Len(q))

\* [...].sort((a, b) => a.rel.localeCompare(b.rel))
RECURSIVE SortByRel(_)
SortByRel(q) ==
    IF q = << >> THEN << >>
    ELSE InsertSorted(SortByRel(SubSeq(q, 1, Len(q) - 1)), q[Len(q)])

\* the useMemo body; files is the changed set in iteration order, dir the
\* working directory or NoCwd
relativeChangedFiles(files, dir) ==
    IF Len(files) = 0 \/ dir = NoCwd
    THEN << >>
    ELSE SortByRel([i \in 1..Len(files) |->
                       [abs |-> files[i], rel |-> RelativeLabel(files[i], dir)]])

InitRelative ==
    /\ InitCtl
    /\ arg \in { [fn |-> "relativeChangedFiles", files |-> q, known |-> k, dir |-> d] :
                   q \in {r \in Arrangements(MaxChanged) : NoRepeat(r)},
                   k \in BOOLEAN,
                   d \in SampleCwds }
    /\ out = NoOut

RenderChangedList ==
    /\ arg.fn = "relativeChangedFiles"
    /\ out = NoOut
    /\ out' = [kind |-> "changedList",
               list |-> IF arg.known
                        THEN relativeChangedFiles(arg.files, arg.dir)
                        ELSE relativeChangedFiles(arg.files, NoCwd)]
    /\ UNCHANGED <<ctl, arg>>

SpecRelative == InitRelative /\ [][RenderChangedList]_vars

-----------------------------------------------------------------------------
(* The lines of a text, from the positions of its newlines *)

NewlinePos(d) == {k \in 1..Len(d) : d[k] = NL}

LineCount(d) == Cardinality(NewlinePos(d)) + 1

\* the position of the i-th newline; 0 before the first line, Len + 1 after the last
NthNewline(d, i) ==
    IF i = 0 THEN 0
    ELSE IF i > Cardinality(NewlinePos(d)) THEN Len(d) + 1
    ELSE CHOOSE k \in NewlinePos(d) :
             Cardinality({j \in NewlinePos(d) : j < k}) = i - 1

LineAt(d, i) == SubSeq(d, NthNewline(d, i - 1) + 1, NthNewline(d, i) - 1)

Prefixed(line, p) == \E n \in 0..Len(line) : SubSeq(line, 1, n) = p

RECURSIVE JoinLines(_)
JoinLines(ls) ==
    IF Len(ls) = 0 THEN << >>
    ELSE IF Len(ls) = 1 THEN ls[1]
    ELSE ls[1] \o <<NL>> \o JoinLines(Tail(ls))

\* the category the spec names for a className
Category(cls) ==
    CASE cls = "bg-cc-success/10 text-cc-success" -> "addition"
      [] cls = "bg-cc-error/10 text-cc-error" -> "deletion"
      [] cls = "text-cc-primary" -> "hunk-header"
      [] cls = "text-cc-muted" -> "metadata"
      [] cls = "text-cc-fg/60" -> "context"
      [] OTHER -> "unknown"

-----------------------------------------------------------------------------
(* C7: every rendered diff line has exactly one category: addition iff the  *)
(* line starts with "+" but not "+++", deletion iff it starts with "-" but  *)
(* not "---", hunk-header iff it starts with "@@", metadata iff it starts   *)
(* with "diff" or "index", and context in every other case (the "+++" and   *)
(* "---" file headers and blank lines included).                            *)
C7_Classification ==
    out.kind = "lines" =>
        \A i \in DOMAIN out.entries :
            LET line == LineAt(arg.diff, i)
                cat == Category(out.entries[i].cls)
                add == Prefixed(line, <<"+">>) /\ ~Prefixed(line, <<"+", "+", "+">>)
                del == Prefixed(line, <<"-">>) /\ ~Prefixed(line, <<"-", "-", "-">>)
                hunk == Prefixed(line, <<"@", "@">>)
                meta == \/ Prefixed(line, <<"d", "i", "f", "f">>)
                        \/ Prefixed(line, <<"i", "n", "d", "e", "x">>)
            IN  /\ (cat = "addition") <=> add
                /\ (cat = "deletion") <=> del
                /\ (cat = "hunk-header") <=> hunk
                /\ (cat = "metadata") <=> meta
                /\ (cat = "context") <=> ~(add \/ del \/ hunk \/ meta)
                /\ line \in {<<"+", "+", "+">>, <<"-", "-", "-">>, << >>}
                       => cat = "context"

\* a rendered diff whose first line is a "+++" file header, shown as context
C7_Witness ==
    /\ out.kind = "lines"
    /\ Len(out.entries) >= 2
    /\ LineAt(arg.diff, 1) = <<"+", "+", "+">>
    /\ Category(out.entries[1].cls) = "context"

-----------------------------------------------------------------------------
(* C8 as stated: for a non-empty diff D the renderer produces one entry per *)
(* newline-separated line, in order, and joining the entries' texts with    *)
(* newline gives D; for the empty D it produces the "no changes" state.     *)
C8_OriginalRoundTrip ==
    out.kind # "none" =>
        IF arg.diff = << >>
        THEN out.kind = "noChanges"
        ELSE /\ out.kind = "lines"
             /\ Len(out.entries) = LineCount(arg.diff)
             /\ \A i \in DOMAIN out.entries : out.entries[i].key = i - 1
             /\ JoinLines([i \in DOMAIN out.entries |-> out.entries[i].text])
                    = arg.diff

(* C8, amended: for a non-empty diff D the renderer produces one entry per  *)
(* newline-separated line, in order; the entry of a blank line carries the  *)
(* non-breaking-space placeholder, every other entry the text of its line,  *)
(* so that joining the entries' texts with newline, the placeholders of the *)
(* blank lines taken as empty, gives D; for the empty D it produces the     *)
(* "no changes" state and no line list.                                     *)
C8_RoundTrip ==
    out.kind # "none" =>
        IF arg.diff = << >>
        THEN out.kind = "noChanges"
        ELSE /\ out.kind = "lines"
             /\ Len(out.entries) = LineCount(arg.diff)
             /\ \A i \in DOMAIN out.entries : out.entries[i].key = i - 1
             /\ LET blank(i) == NthNewline(arg.diff, i)
                                    = NthNewline(arg.diff, i - 1) + 1
                IN  /\ \A i \in DOMAIN out.entries :
                           blank(i) => out.entries[i].text = <<Nbsp>>
                    /\ JoinLines([i \in DOMAIN out.entries |->
                                     IF blank(i) THEN << >>
                                     ELSE out.entries[i].text])
                           = arg.diff

\* a rendered diff of three lines, the middle one blank
C8_Witness ==
    /\ out.kind = "lines"
    /\ Len(out.entries) = 3
    /\ LineAt(arg.diff, 1) # << >>
    /\ LineAt(arg.diff, 2) = << >>
    /\ LineAt(arg.diff, 3) # << >>

-----------------------------------------------------------------------------
\* node j is node i or lies below it
RECURSIVE InSubtree(_, _, _)
InSubtree(shape, i, j) ==
    \/ j = i
    \/ j > 1 /\ InSubtree(shape, i, shape.parent[j])

(* C6: for every tree and every changed set, the marker of a node is set    *)
(* iff some node of the subtree rooted at it, itself included, has its path *)
(* in the changed set; for a file and for a directory without children that *)
(* is membership of its own path.                                           *)
C6_ChangePropagation ==
    out.kind = "markers" =>
        \A i \in 1..arg.shape.n :
            /\ out.marker[i] <=>
                   \E j \in 1..arg.shape.n :
                       InSubtree(arg.shape, i, j) /\ j \in arg.changed
            /\ ChildrenOf(arg.shape, i) = {} =>
                   (out.marker[i] <=> i \in arg.changed)

\* a chain of three nodes whose root is marked because of its grandchild only
C6_Witness ==
    /\ out.kind = "markers"
    /\ arg.shape.n >= 3
    /\ arg.shape.parent[2] = 1
    /\ arg.shape.parent[3] = 2
    /\ arg.changed = {3}
    /\ out.marker[1]

-----------------------------------------------------------------------------
\* a comes before b, or is b, in the order of the characters' ranks
LexLeq(a, b) ==
    \/ a = b
    \/ Len(a) < Len(b) /\ SubSeq(b, 1, Len(a)) = a
    \/ \E k \in 1..Len(a) :
           /\ k <= Len(b)
           /\ SubSeq(a, 1, k - 1) = SubSeq(b, 1, k - 1)
           /\ CharRank(a[k]) < CharRank(b[k])

(* C9: with the working directory known, the sidebar's changed-file list    *)
(* has exactly one entry per path of the changed set; the label of an entry *)
(* is the path without the prefix workdir + "/" when the path starts with   *)
(* that prefix, and the path itself otherwise; the entries are in the order *)
(* of their labels.                                                         *)
C9_ChangedList ==
    (out.kind = "changedList" /\ arg.known) =>
        LET prefix == arg.dir \o <<"/">> IN
        /\ Len(out.list) = Len(arg.files)
        /\ \A i \in 1..Len(arg.files) :
               Cardinality({k \in 1..Len(out.list) : out.list[k].abs = arg.files[i]}) = 1
        /\ \A k \in 1..Len(out.list) :
               IF Prefixed(out.list[k].abs, prefix)
               THEN prefix \o out.list[k].rel = out.list[k].abs
               ELSE out.list[k].rel = out.list[k].abs
        /\ \A k \in 1..(Len(out.list) - 1) :
               LexLeq(out.list[k].rel, out.list[k + 1].rel)

\* a list of three whose order differs from the set's, with a path that only
\* looks like it lies below the working directory
C9_Witness ==
    /\ out.kind = "changedList"
    /\ arg.known
    /\ arg.dir = <<"/", "r">>
    /\ arg.files = << <<"/", "r", "b">>, <<"/", "r", "/", "b">>, <<"/", "r", "/", "a">> >>
    /\ out.list[1].rel = <<"/", "r", "b">>
    /\ out.list[2].rel = <<"a">>
    /\ out.list[3].rel = <<"b">>

-----------------------------------------------------------------------------
(* C1: with a file open and loaded, a burst of one or more edits that is    *)
(* not interrupted before the debounce timer fires, and whose write         *)
(* succeeds, issues exactly one writeFile call, carrying the value of the   *)
(* last edit, and saveStatus goes dirty, saving, saved, none in that order. *)
C1_BurstPhase ==
    /\ saveStatus = "dirty" =>
           /\ timers = {[id |-> saveTimerRef, path |-> openFilePath,
                         value |-> fileContent]}
           /\ writeReqs = EmptyBag
    /\ saveStatus = "saving" =>
           /\ timers = {}
           /\ writeReqs = One([path |-> openFilePath, value |-> fileContent])
    /\ saveStatus = "saved" =>
           /\ timers = {}
           /\ writeReqs = EmptyBag
           /\ statusTimers = 1
           /\ savedContent = fileContent
    /\ saveStatus = StatusNone =>
           /\ timers = {}
           /\ writeReqs = EmptyBag
           /\ statusTimers = 0
           /\ ~isDirty

C1_BurstStep ==
    /\ saveStatus' # saveStatus =>
           <<saveStatus, saveStatus'>> \in
               { <<StatusNone, "dirty">>, <<"dirty", "saving">>,
                 <<"saving", "saved">>, <<"saved", StatusNone>> }
    /\ writeReqs' # writeReqs =>
           \/ /\ saveStatus = "dirty" /\ saveStatus' = "saving"
              /\ BagCardinality(writeReqs') = BagCardinality(writeReqs) + 1
           \/ /\ saveStatus = "saving" /\ saveStatus' = "saved"
              /\ BagCardinality(writeReqs') = BagCardinality(writeReqs) - 1

-----------------------------------------------------------------------------
(* C2: when the read of the open file P resolves with content c, then       *)
(* fileContent = savedContent = c, the buffer is not dirty and saveStatus   *)
(* is none.                                                                 *)
C2_LoadedClean ==
    [][ \A p \in Paths, c \in Contents :
            (ReadResolve(p, TRUE, c) /\ p = openFilePath) =>
                /\ fileContent' = c
                /\ savedContent' = c
                /\ ~isDirty'
                /\ saveStatus' = StatusNone ]_vars

-----------------------------------------------------------------------------
(* C3: in every state with a file open the Edit/Diff control is offered iff *)
(* the open path is in the changed set, and diff mode is turned on only for *)
(* an open file that is in the changed set.                                 *)
C3_ToggleOffered ==
    /\ [](openFilePath # NoPath =>
              (ToggleShown <=> openFilePath \in changedFiles))
    /\ [][ (~diffMode /\ diffMode') =>
               /\ openFilePath' = openFilePath
               /\ openFilePath # NoPath
               /\ openFilePath \in changedFiles ]_vars

\* diff mode is on for an open file of the changed set, while another file
\* could be opened for which the control would not be offered
C3_Witness ==
    /\ diffMode
    /\ openFilePath \in changedFiles
    /\ changedFiles # Paths

-----------------------------------------------------------------------------
(* C4 as stated: turning diff mode on issues exactly one getFileDiff call,  *)
(* for the open path, and from then on the editor is not shown (a spinner,  *)
(* then the diff view) until diff mode is turned off or the file changes.   *)
C4_OriginalDiffOn ==
    [][ /\ (~diffMode /\ diffMode') =>
               /\ diffReqs' = diffReqs (+) One(openFilePath)
               /\ View' = "spinner"
        /\ (diffMode /\ diffMode' /\ openFilePath' = openFilePath) =>
               View' \in {"spinner", "diff"} ]_vars

(* C4, amended: turning diff mode on issues exactly one getFileDiff call,   *)
(* for the open path, and from then on the editor is not shown (a spinner,  *)
(* then the diff view) until diff mode is turned off, the file changes, or  *)
(* the open file leaves the changed set.                                    *)
C4_DiffOn ==
    [][ /\ (~diffMode /\ diffMode') =>
               /\ diffReqs' = diffReqs (+) One(openFilePath)
               /\ View' = "spinner"
        /\ (diffMode /\ diffMode' /\ openFilePath' = openFilePath
                /\ openFilePath \in changedFiles') =>
               View' \in {"spinner", "diff"} ]_vars

\* the diff of the open file is on display
C4_Witness ==
    /\ diffMode
    /\ openFilePath \in changedFiles
    /\ diffContent = DiffOf(openFilePath)
    /\ View = "diff"

-----------------------------------------------------------------------------
(* C5: turning diff mode on, the arrival of a diff result and turning diff  *)
(* mode off leave fileContent, savedContent and saveStatus as they are, and *)
(* turning diff mode off issues no readFile call.                           *)
C5_DiffLeavesBuffer ==
    [][ /\ ( \/ (diffMode' # diffMode /\ openFilePath' = openFilePath /\ mounted')
             \/ BagCardinality(diffReqs') < BagCardinality(diffReqs) /\ mounted' ) =>
               /\ fileContent' = fileContent
               /\ savedContent' = savedContent
               /\ saveStatus' = saveStatus
        /\ (diffMode /\ ~diffMode' /\ openFilePath' = openFilePath /\ mounted') =>
               readReqs' = readReqs ]_vars

\* back in the editor, with an unsaved edit in the buffer, after a diff of
\* the open file was shown
C5_Witness ==
    /\ ~diffMode
    /\ View = "editor"
    /\ openFilePath \in changedFiles
    /\ diffContent = DiffOf(openFilePath)
    /\ isDirty
    /\ saveStatus = "dirty"
    /\ readReqs = EmptyBag

-----------------------------------------------------------------------------
(* C10: whenever openFilePath changes, diffMode is false once the change    *)
(* has been processed, whatever it was before and whether or not the new    *)
(* file is in the changed set.                                              *)
C10_DiffModeReset ==
    [][ openFilePath' # openFilePath => ~diffMode' ]_vars

\* a file of the changed set was opened while the diff of another file was
\* on display: its content is loading and diff mode is off
C10_Witness ==
    /\ openFilePath \in changedFiles
    /\ fileLoading
    /\ BagIn(openFilePath, readReqs)
    /\ diffContent # NoDiff
    /\ diffContent # DiffOf(openFilePath)
    /\ ~diffMode

-----------------------------------------------------------------------------
(* C11: when a write issued for a file resolves, with success or failure,   *)
(* while another file is the open one, the resolution changes none of       *)
(* savedContent, saveStatus and fileContent.                                *)
C11_StaleWriteIgnored ==
    [][ \A w \in BagToSet(writeReqs), ok \in BOOLEAN :
            (WriteResolve(w, ok) /\ w.path # openFilePath) =>
                /\ savedContent' = savedContent
                /\ saveStatus' = saveStatus
                /\ fileContent' = fileContent ]_vars

-----------------------------------------------------------------------------
(* C12: a readFile result or failure for a path that is no longer the open  *)
(* one is ignored: its resolution changes neither fileContent nor           *)
(* savedContent, in whatever order the reads in flight resolve.             *)
C12_StaleReadIgnored ==
    [][ \A p \in Paths, ok \in BOOLEAN, c \in Contents :
            (ReadResolve(p, ok, c) /\ p # openFilePath) =>
                /\ fileContent' = fileContent
                /\ savedContent' = savedContent ]_vars

-----------------------------------------------------------------------------
(* C13: a step that changes openFilePath leaves no debounce timer pending   *)
(* that was armed for the previous file: the switch cancels it, so no timer *)
(* is ever pending for a path other than the open one and no writeFile for  *)
(* the previous path comes from it.                                         *)
C13_SwitchCancelsTimer ==
    /\ [](\A t \in timers : mounted => t.path = openFilePath)
    /\ [][ openFilePath' # openFilePath =>
               \A t \in timers' : t.path # openFilePath ]_vars

-----------------------------------------------------------------------------
(* C14: the teardown of the panel cancels the pending debounce timer: once  *)
(* the panel is unmounted no debounce timer is pending, and no step after   *)
(* the teardown issues a writeFile call.                                    *)
C14_TeardownCancels ==
    /\ [](~mounted => timers = {})
    /\ [][ ~mounted' =>
               BagCardinality(writeReqs') <= BagCardinality(writeReqs) ]_vars

\* the panel was torn down within 800 ms of an edit: the cleanup cancelled
\* the timer of that edit, and no write is in flight
C14_Witness ==
    /\ ~mounted
    /\ out.kind = "clearTimeout"
    /\ out.cancelled # {}
    /\ timers = {}
    /\ writeReqs = EmptyBag

-----------------------------------------------------------------------------
(* C15: when a write fails, saveStatus becomes "dirty", fileContent and     *)
(* savedContent are left as they were, and the failure itself neither       *)
(* issues a writeFile call nor arms a timer: a later writeFile call comes   *)
(* only from a timer that an edit armed.                                    *)
C15_WriteFailure ==
    [][ /\ \A w \in BagToSet(writeReqs) :
               WriteResolve(w, FALSE) =>
                   /\ saveStatus' = "dirty"
                   /\ fileContent' = fileContent
                   /\ savedContent' = savedContent
                   /\ isDirty' = isDirty
                   /\ timers' = timers
                   /\ writeReqs' = writeReqs (-) One(w)
        /\ \A w \in BagToSet(writeReqs') :
               CopiesIn(w, writeReqs') > CopiesIn(w, writeReqs) =>
                   \E t \in timers \ timers' :
                       w = [path |-> t.path, value |-> t.value] ]_vars

\* a write has failed: the edit is in the buffer, unsaved and shown as
\* such, and neither a timer nor a write is outstanding
C15_Witness ==
    /\ mounted
    /\ View = "editor"
    /\ saveStatus = "dirty"
    /\ isDirty
    /\ timers = {}
    /\ writeReqs = EmptyBag
    /\ readReqs = EmptyBag

-----------------------------------------------------------------------------
(* C16: when the read of the open file fails, fileContent is the error      *)
(* text and savedContent the empty string, so the buffer is dirty, the      *)
(* loading flag is cleared and saveStatus is none.                          *)
C16_ReadFailure ==
    [][ \A p \in Paths, c \in Contents :
            (ReadResolve(p, FALSE, c) /\ p = openFilePath) =>
                /\ fileContent' = ErrorSentinel
                /\ savedContent' = ""
                /\ isDirty'
                /\ ~fileLoading'
                /\ saveStatus' = StatusNone ]_vars

-----------------------------------------------------------------------------
(* C17: in every state at most one debounce timer is pending, and it is the *)
(* one the timer handle names; an edit cancels the pending timer before it  *)
(* arms its own, so a timer superseded by a later edit is never the one     *)
(* that fires.                                                              *)
C17_OneTimer ==
    /\ [](/\ Cardinality(timers) <= 1
          /\ \A t \in timers : t.id = saveTimerRef)
    /\ [][ \A v \in Contents :
               HandleChange(v) =>
                   timers' = {[id |-> saveTimerRef', path |-> openFilePath,
                               value |-> v]} ]_vars

\* a second edit within 800 ms of the first: the only pending timer carries
\* the second value, while the write of an earlier edit is still in flight
C17_Witness ==
    /\ mounted
    /\ \E t \in timers, w \in BagToSet(writeReqs) :
           /\ timers = {t}
           /\ t.value = fileContent
           /\ w.path = t.path
           /\ w.value # t.value

-----------------------------------------------------------------------------
(* C18: the timer an edit arms captures the open path and the value of that *)
(* edit; the writeFile call made when it fires carries exactly that path    *)
(* and value; and a successful write sets savedContent to the value it      *)
(* carried, whatever openFilePath and fileContent are by then.              *)
C18_CapturedAtArmTime ==
    [][ /\ \A v \in Contents :
               HandleChange(v) =>
                   [id |-> saveTimerRef', path |-> openFilePath, value |-> v]
                       \in timers'
        /\ \A t \in timers :
               TimerFire(t) =>
                   writeReqs' =
                       writeReqs (+) One([path |-> t.path, value |-> t.value])
        /\ \A w \in BagToSet(writeReqs) :
               WriteResolve(w, TRUE) => savedContent' = w.value ]_vars

\* a write has succeeded after the buffer was edited again: savedContent is
\* the value the write carried, not the buffer, whose own timer is pending
C18_Witness ==
    /\ mounted
    /\ saveStatus = "saved"
    /\ statusTimers > 0
    /\ savedContent # fileContent
    /\ \E t \in timers : t.value = fileContent /\ t.path = openFilePath

-----------------------------------------------------------------------------
(* C19: the debounce does not bound the writeFile requests in flight to     *)
(* one: while a write of a file is in flight, the timer of a later edit of  *)
(* that file can fire and issue another one (as long as the model's bound   *)
(* on outstanding callbacks leaves room), so that a state with two          *)
(* writeFile requests for the same file in flight is reached.               *)
C19_WritesOverlap ==
    \A t \in timers :
        ((\E w \in BagToSet(writeReqs) : w.path = t.path) /\ Room(1)) =>
            ENABLED TimerFire(t)

\* two writeFile requests for the same file are in flight
C19_Witness ==
    \E w1, w2 \in BagToSet(writeReqs) :
        /\ w1.path = w2.path
        /\ (w1 # w2 \/ CopiesIn(w1, writeReqs) >= 2)

-----------------------------------------------------------------------------
(* C20: the resolution of a tree fetch, of a file read and of a diff fetch, *)
(* successful or not, clears treeLoading, fileLoading and diffLoading       *)
(* respectively; so in every state in which no request of a kind is in      *)
(* flight the loading flag of that kind is false.                           *)
C20_LoadingClears ==
    /\ [](/\ treeReqs = 0 => ~treeLoading
          /\ readReqs = EmptyBag => ~fileLoading
          /\ diffReqs = EmptyBag => ~diffLoading)
    /\ [][ /\ treeReqs' < treeReqs => ~treeLoading'
           /\ BagCardinality(readReqs') < BagCardinality(readReqs) =>
                  ~fileLoading'
           /\ BagCardinality(diffReqs') < BagCardinality(diffReqs) =>
                  ~diffLoading' ]_vars

\* the tree fetch, the read of the open file and the fetch of its diff have
\* all resolved, the read with a failure: no request is in flight and no
\* loading flag is set
C20_Witness ==
    /\ mounted
    /\ cwd # NoCwd
    /\ fileContent = ErrorSentinel
    /\ diffMode
    /\ openFilePath \in changedFiles
    /\ treeReqs = 0 /\ readReqs = EmptyBag /\ diffReqs = EmptyBag
    /\ ~treeLoading /\ ~fileLoading /\ ~diffLoading

-----------------------------------------------------------------------------
(* C21: while one file stays open and every write succeeds, in every state  *)
(* in which the file is loaded, no debounce timer is pending and no write   *)
(* is in flight, savedContent equals fileContent (the buffer is not         *)
(* dirty), in whatever order overlapping writes have resolved.              *)
C21_QuiescentClean ==
    (/\ mounted
     /\ openFilePath # NoPath
     /\ readReqs = EmptyBag
     /\ timers = {}
     /\ writeReqs = EmptyBag) => ~isDirty

-----------------------------------------------------------------------------
(* C22: an edit made while the display timer of an earlier successful save  *)
(* is still pending sets saveStatus to "dirty", and when that display timer *)
(* fires while saveStatus is "dirty" or "saving" it leaves saveStatus as it *)
(* is: the status of the later edit is not reset to none.                   *)
C22_EditAfterSave ==
    [][ /\ \A v \in Contents :
               (HandleChange(v) /\ statusTimers > 0) => saveStatus' = "dirty"
        /\ (StatusTimerFire /\ saveStatus \in {"dirty", "saving"}) =>
               saveStatus' = saveStatus ]_vars

-----------------------------------------------------------------------------
(* C23: whenever the diff view is displayed, diffContent is the result of a *)
(* getFileDiff call for the open file (its diff, or empty when there is     *)
(* none or the call failed), never the diff of another file.                *)
C23_DiffOfOpenFile ==
    View = "diff" => diffContent \in DiffResults(openFilePath)

-----------------------------------------------------------------------------
(* C24: a step that changes openFilePath issues no getFileDiff call, even   *)
(* when diff mode was on: a diff fetch is never issued by the opening of a  *)
(* file.                                                                    *)
C24_NoDiffFetchOnSwitch ==
    [][ openFilePath' # openFilePath =>
            \A p \in Paths : CopiesIn(p, diffReqs') <= CopiesIn(p, diffReqs) ]_vars

=============================================================================
